---- MODULE Spec2Model ----
(***************************************************************************)
(* The analytics engine of the finance planner (src/analysis.py) over the  *)
(* data classes of src/models.py.                                          *)
(*                                                                         *)
(* Amounts are whole currency units (integers).  A timestamp is the tuple  *)
(* <<year, month, day, second-of-day>>; a date is <<year, month, day>>.    *)
(* A timestamp on its way to a file carries its microsecond as a fifth     *)
(* component; a description is the sequence of its characters.             *)
(* A percentage share is kept in hundredths of a percent (3333 = 33.33).   *)
(* A pandas DataFrame is a record [columns, rows]; a call that raises is   *)
(* a result whose field raised names the exception.                        *)
(***************************************************************************)
EXTENDS Integers, Sequences, FiniteSets, TLC

\* Longest ledger the model builds.
MaxOps == 3

----------------------------------------------------------------------------
(* src/models.py *)

INCOME == "INCOME"
EXPENSE == "EXPENSE"
OperationType == {INCOME, EXPENSE}

\* names of the categories of a ledger with many categories
WideNames ==
  << "W01", "W02", "W03", "W04", "W05", "W06", "W07", "W08", "W09",
     "W10", "W11", "W12", "W13", "W14", "W15", "W16", "W17", "W18",
     "W19", "W20", "W21", "W22", "W23" >>

\* Category(id, name): two categories share the name Food.
Category ==
  { [id |-> 1, name |-> "Food"],
    [id |-> 2, name |-> "Food"],
    [id |-> 3, name |-> "Rent"],
    [id |-> 4, name |-> "Taxi"] }
  \cup {[id |-> 4 + k, name |-> WideNames[k]] : k \in 1..Len(WideNames)}

\* The category names in the order Python compares strings.
NameOrder == <<"Food", "Rent", "Taxi">> \o WideNames

\* __post_init__ refusing only a negative amount
post_init_ok_nonnegative(amount) == amount >= 0

\* FinancialOperation.__post_init__: the amount must be positive.
post_init_ok(amount) == amount > 0

\* signed_amount without the sign
signed_amount_unsigned(op) == op.amount

\* FinancialOperation.signed_amount
signed_amount(op) ==
  IF op.operation_type = INCOME THEN op.amount ELSE 0 - op.amount

----------------------------------------------------------------------------
(* dates *)

DatePart(ts) == <<ts[1], ts[2], ts[3]>>

\* date <= date, as datetime.date compares
DateLE(a, b) ==
  \/ a[1] < b[1]
  \/ a[1] = b[1] /\ a[2] < b[2]
  \/ a[1] = b[1] /\ a[2] = b[2] /\ a[3] <= b[3]

\* to_period_M putting the 31st of a month into the month after it
to_period_M_late(ts) ==
  ts[1] * 12 + (ts[2] - 1) + (IF ts[3] = 31 THEN 1 ELSE 0)

\* Series.dt.to_period('M'): the calendar month, as months since year 0.
to_period_M(ts) == ts[1] * 12 + (ts[2] - 1)

----------------------------------------------------------------------------
(* sequences *)

RECURSIVE SumOver(_, _)
\* the sum of f[i] over the finite set of indices S
SumOver(f, S) ==
  IF S = {} THEN 0
  ELSE LET i == CHOOSE j \in S : TRUE IN f[i] + SumOver(f, S \ {i})

\* the rows of a sequence whose index satisfies keep, in their order
RECURSIVE FilterIdx(_, _, _)
FilterIdx(rows, keep, i) ==
  IF i > Len(rows) THEN <<>>
  ELSE (IF keep[i] THEN <<rows[i]>> ELSE <<>>) \o FilterIdx(rows, keep, i + 1)

\* df[df['type'] == type]
of_type(rows, type) ==
  FilterIdx(rows, [i \in 1..Len(rows) |-> rows[i].type = type], 1)

ColumnSum(rows) == SumOver([i \in 1..Len(rows) |-> rows[i].amount], 1..Len(rows))

----------------------------------------------------------------------------
(* src/analysis.py *)

FrameColumns ==
  {"id", "amount", "type", "category", "date", "description", "signed_amount"}

\* FinancialAnalyzer.to_dataframe: pd.DataFrame([]) has no columns at all.
to_dataframe(ops) ==
  [columns |-> IF Len(ops) = 0 THEN {} ELSE FrameColumns,
   rows    |-> [i \in 1..Len(ops) |->
                 [id            |-> ops[i].id,
                  amount        |-> ops[i].amount,
                  type          |-> ops[i].operation_type,
                  category      |-> ops[i].category.name,
                  date          |-> ops[i].date,
                  description   |-> ops[i].description,
                  signed_amount |-> signed_amount(ops[i])]]]

Raised(exc) == [raised |-> exc, value |-> <<>>]
Returned(v) == [raised |-> "none", value |-> v]

\* get_balance_by_period with the two date conditions joined by | for &
get_balance_by_period_either(ops, start_date, end_date) ==
  LET df == to_dataframe(ops) IN
  IF "date" \notin df.columns THEN Raised("KeyError")
  ELSE
    LET in_period == [i \in 1..Len(df.rows) |->
                        DateLE(start_date, DatePart(df.rows[i].date))
                        \/ DateLE(DatePart(df.rows[i].date), end_date)]
        period_df == FilterIdx(df.rows, in_period, 1)
        income  == ColumnSum(of_type(period_df, INCOME))
        expense == ColumnSum(of_type(period_df, EXPENSE))
    IN Returned([income |-> income, expense |-> expense,
                 balance |-> income - expense])

\* get_balance_by_period with df['date'].dt.date < end_date: the last day
\* of the period left out
get_balance_by_period_before_end(ops, start_date, end_date) ==
  LET df == to_dataframe(ops) IN
  IF "date" \notin df.columns THEN Raised("KeyError")
  ELSE
    LET in_period == [i \in 1..Len(df.rows) |->
                        DateLE(start_date, DatePart(df.rows[i].date))
                        /\ DateLE(DatePart(df.rows[i].date), end_date)
                        /\ DatePart(df.rows[i].date) # end_date]
        period_df == FilterIdx(df.rows, in_period, 1)
        income  == ColumnSum(of_type(period_df, INCOME))
        expense == ColumnSum(of_type(period_df, EXPENSE))
    IN Returned([income |-> income, expense |-> expense,
                 balance |-> income - expense])

\* FinancialAnalyzer.get_balance_by_period
get_balance_by_period(ops, start_date, end_date) ==
  LET df == to_dataframe(ops) IN
  IF "date" \notin df.columns THEN Raised("KeyError")
  ELSE
    LET in_period == [i \in 1..Len(df.rows) |->
                        DateLE(start_date, DatePart(df.rows[i].date))
                        /\ DateLE(DatePart(df.rows[i].date), end_date)]
        period_df == FilterIdx(df.rows, in_period, 1)
        income  == ColumnSum(of_type(period_df, INCOME))
        expense == ColumnSum(of_type(period_df, EXPENSE))
    IN Returned([income |-> income, expense |-> expense,
                 balance |-> income - expense])

\* round_2 cutting the digits off instead of rounding
round_2_truncated(num, den) == (10000 * num) \div den

\* Series.round(2) of a percentage: numpy rounds to the nearest hundredth,
\* an exact half to the even neighbour.  The value is 100 * num / den.
round_2(num, den) ==
  LET scaled == 10000 * num
      q == scaled \div den
      r == scaled % den
  IN IF 2 * r < den THEN q
     ELSE IF 2 * r > den THEN q + 1
     ELSE IF q % 2 = 0 THEN q ELSE q + 1

RECURSIVE Ascending(_)
\* the numbers of a finite set in ascending order
Ascending(S) ==
  IF S = {} THEN <<>>
  ELSE LET m == CHOOSE x \in S : \A y \in S : x <= y
       IN <<m>> \o Ascending(S \ {m})

\* groupby('category')['amount'].agg(['sum', 'count']).reset_index():
\* one row per distinct name, the rows in ascending order of the name.
groupby_category(type_rows) ==
  LET names == {type_rows[i].category : i \in 1..Len(type_rows)}
      keys == Ascending({k \in 1..Len(NameOrder) : NameOrder[k] \in names})
      OfName(n) == {i \in 1..Len(type_rows) : type_rows[i].category = n}
      amounts == [i \in 1..Len(type_rows) |-> type_rows[i].amount]
  IN [j \in 1..Len(keys) |->
        [Category |-> NameOrder[keys[j]],
         Sum      |-> SumOver(amounts, OfName(NameOrder[keys[j]])),
         Count    |-> Cardinality(OfName(NameOrder[keys[j]]))]]

\* stats['Share'] = (stats['Sum'] / stats['Sum'].sum() * 100).round(2)
with_share(stats) ==
  LET total == SumOver([i \in 1..Len(stats) |-> stats[i].Sum], 1..Len(stats))
  IN [i \in 1..Len(stats) |->
        [Category |-> stats[i].Category,
         Sum      |-> stats[i].Sum,
         Count    |-> stats[i].Count,
         Share    |-> round_2(stats[i].Sum, total)]]

RECURSIVE Arrangements(_, _)
\* every order of the rows with indices in S that is descending by Sum
Arrangements(rows, S) ==
  IF S = {} THEN {<<>>}
  ELSE LET tops == {i \in S : \A j \in S : rows[j].Sum <= rows[i].Sum}
       IN UNION {{<<rows[i]>> \o rest : rest \in Arrangements(rows, S \ {i})}
                 : i \in tops}

\* sort_values left out: the rows stay in the order of the grouping
sort_values_skipped(rows) == {rows}

\* DataFrame.sort_values('Sum', ascending=False) with the default
\* kind='quicksort', which is not stable: rows of equal Sum may come out in
\* any order.  The set of the frames the call can return.
sort_values_desc(rows) == Arrangements(rows, 1..Len(rows))

\* get_category_stats without the filter on the type
get_category_stats_unfiltered(ops, operation_type) ==
  LET df == to_dataframe(ops) IN
  IF "type" \notin df.columns THEN {Raised("KeyError")}
  ELSE {Returned(r) :
          r \in sort_values_desc(with_share(groupby_category(df.rows)))}

\* get_category_stats dividing by the total in plain Python: no rows, no total
get_category_stats_dividing(ops, operation_type) ==
  LET df == to_dataframe(ops) IN
  IF "type" \notin df.columns THEN {Raised("KeyError")}
  ELSE
    LET type_df == of_type(df.rows, operation_type)
        stats == with_share(groupby_category(type_df))
    IN IF Len(type_df) = 0 THEN {Raised("ZeroDivisionError")}
       ELSE {Returned(r) : r \in sort_values_desc(stats)}

\* FinancialAnalyzer.get_category_stats: the set of possible outcomes.
get_category_stats(ops, operation_type) ==
  LET df == to_dataframe(ops) IN
  IF "type" \notin df.columns THEN {Raised("KeyError")}
  ELSE
    LET type_df == of_type(df.rows, operation_type)
        stats == with_share(groupby_category(type_df))
    IN {Returned(s) : s \in sort_values_desc(stats)}

\* DataFrame.head(n) in the place of tail(n): the first n rows
tail_from_start(rows, n) ==
  IF n > 0 THEN SubSeq(rows, 1, IF Len(rows) > n THEN n ELSE Len(rows))
  ELSE IF n = 0 THEN <<>>
  ELSE SubSeq(rows, 1, Len(rows) + n)

\* DataFrame.tail(n): the last n rows; for n < 0 all rows but the first -n.
tail(rows, n) ==
  IF n > 0 THEN
    SubSeq(rows, (IF Len(rows) > n THEN Len(rows) - n ELSE 0) + 1, Len(rows))
  ELSE IF n = 0 THEN <<>>
  ELSE SubSeq(rows, (0 - n) + 1, Len(rows))

\* resample('M').sum() left out: one row per month that occurs, no row for a
\* month between them
monthly_resampled_unfilled(rows) ==
  LET months == Ascending({to_period_M(rows[i].date) : i \in 1..Len(rows)})
      types == {rows[i].type : i \in 1..Len(rows)}
      amounts == [i \in 1..Len(rows) |-> rows[i].amount]
      Cell(m, t) == SumOver(amounts, {i \in 1..Len(rows) :
                              to_period_M(rows[i].date) = m /\ rows[i].type = t})
  IN [k \in 1..Len(months) |->
        [month |-> months[k],
         cells |-> [t \in types |-> Cell(months[k], t)]]]

\* groupby(['month', 'type'])['amount'].sum().unstack(fill_value=0): one
\* column per type that occurs in the frame, one row per month that occurs.
\* resample('M').sum(): one row for every month from the first to the last.
monthly_resampled(rows) ==
  LET months == {to_period_M(rows[i].date) : i \in 1..Len(rows)}
      types == {rows[i].type : i \in 1..Len(rows)}
      first == CHOOSE m \in months : \A k \in months : m <= k
      last_m == CHOOSE m \in months : \A k \in months : k <= m
      amounts == [i \in 1..Len(rows) |-> rows[i].amount]
      Cell(m, t) == SumOver(amounts, {i \in 1..Len(rows) :
                              to_period_M(rows[i].date) = m /\ rows[i].type = t})
  IN [k \in 1..(last_m - first + 1) |->
        [month |-> first + k - 1,
         cells |-> [t \in types |-> Cell(first + k - 1, t)]]]

\* DataFrame.get(column, 0)
frame_get(cells, column) ==
  IF column \in DOMAIN cells THEN cells[column] ELSE 0

\* monthly['Balance'] = monthly.get(INCOME, 0) - monthly.get(EXPENSE, 0)
with_balance(monthly) ==
  [k \in 1..Len(monthly) |->
     [month |-> monthly[k].month,
      cells |-> [c \in (DOMAIN monthly[k].cells) \cup {"Balance"} |->
                   IF c = "Balance"
                   THEN frame_get(monthly[k].cells, INCOME)
                        - frame_get(monthly[k].cells, EXPENSE)
                   ELSE monthly[k].cells[c]]]]

\* FinancialAnalyzer.get_monthly_trends
get_monthly_trends(ops, months) ==
  LET df == to_dataframe(ops) IN
  IF "date" \notin df.columns THEN Raised("KeyError")
  ELSE Returned(with_balance(tail(monthly_resampled(df.rows), months)))

RECURSIVE StableDescTiesReversed(_, _)
\* a descending sort that hands equal keys back in reverse order, as
\* sorted(...)[::-1] does
StableDescTiesReversed(rows, S) ==
  IF S = {} THEN <<>>
  ELSE LET tops == {i \in S : \A j \in S : rows[j].amount <= rows[i].amount}
           i == CHOOSE k \in tops : \A j \in tops : j <= k
       IN <<rows[i]>> \o StableDescTiesReversed(rows, S \ {i})

RECURSIVE StableDesc(_, _)
\* sorted(..., key=amount, reverse=True): descending, equal keys keep their
\* order (Python's sort is stable, also under reverse=True)
StableDesc(rows, S) ==
  IF S = {} THEN <<>>
  ELSE LET tops == {i \in S : \A j \in S : rows[j].amount <= rows[i].amount}
           i == CHOOSE k \in tops : \A j \in tops : k <= j
       IN <<rows[i]>> \o StableDesc(rows, S \ {i})

\* list[:limit]: the first limit items; for limit < 0 all but the last -limit
slice_to(rows, limit) ==
  IF limit >= 0 THEN SubSeq(rows, 1, IF limit < Len(rows) THEN limit ELSE Len(rows))
  ELSE SubSeq(rows, 1, Len(rows) + limit)

\* FinancialAnalyzer.get_top_expenses
get_top_expenses(ops, limit) ==
  LET expenses == FilterIdx(ops, [i \in 1..Len(ops) |->
                              ops[i].operation_type = EXPENSE], 1)
  IN Returned(slice_to(StableDesc(expenses, 1..Len(expenses)), limit))

\* datetime.date.toordinal up to a constant: days since 1970-01-01
days_from_civil(dt) ==
  LET y == IF dt[2] <= 2 THEN dt[1] - 1 ELSE dt[1]
      era == y \div 400
      yoe == y - era * 400
      mp == (dt[2] + 9) % 12
      doy == (153 * mp + 2) \div 5 + dt[3] - 1
      doe == yoe * 365 + yoe \div 4 - yoe \div 100 + doy
  IN era * 146097 + doe - 719468

\* date > now - timedelta(days=90), to the second
is_recent(ts, now) ==
  LET d == days_from_civil(ts)
      c == days_from_civil(now) - 90
  IN d > c \/ (d = c /\ ts[4] > now[4])

\* FinancialAnalyzer.predict_next_month_expense; now is datetime.now().
\* A mean is the fraction [num, den].
predict_next_month_expense(ops, now) ==
  LET df == to_dataframe(ops) IN
  IF "type" \notin df.columns THEN Raised("KeyError")
  ELSE
    LET expenses == of_type(df.rows, EXPENSE)
        recent == FilterIdx(expenses, [i \in 1..Len(expenses) |->
                              is_recent(expenses[i].date, now)], 1)
        months == {to_period_M(recent[i].date) : i \in 1..Len(recent)}
    IN IF Len(expenses) = 0 THEN Returned([num |-> 0, den |-> 1])
       ELSE IF Len(recent) > 0
       THEN Returned([num |-> ColumnSum(recent), den |-> Cardinality(months)])
       ELSE Returned([num |-> ColumnSum(expenses), den |-> Len(expenses)])

----------------------------------------------------------------------------
(* the inputs *)

\* 23:59:59 as the second of the day
EndOfDay == 24 * 3600 - 1

\* the operations callers construct: (type, amount, category id, date); the
\* last two carry an amount FinancialOperation refuses
Fixtures ==
  { <<EXPENSE, 1, 1, <<2023, 12, 31, EndOfDay>>>>,
    <<EXPENSE, 1, 2, <<2024,  1,  1, 0>>>>,
    <<EXPENSE, 2, 3, <<2024,  3, 15, 0>>>>,
    <<EXPENSE, 1, 4, <<2023, 12, 31, EndOfDay>>>>,
    <<INCOME,  2, 1, <<2024,  1,  1, 0>>>>,
    <<INCOME,  1, 3, <<2023, 12, 31, EndOfDay>>>>,
    <<EXPENSE, 0, 1, <<2024,  1,  1, 0>>>>,
    <<INCOME, -1, 3, <<2024,  1,  1, 0>>>> }

CategoryOf(cid) == CHOOSE c \in Category : c.id = cid

QueryDates == {<<2023, 12, 31>>, <<2024, 1, 1>>, <<2024, 3, 15>>}
Windows == {-1, 0, 1, 2, 6}
Limits == {-1, 0, 1, 2, 5}
\* the moments of a forecast: before the latest fixture, within 90 days of
\* all of them, within 90 days of the latest only, and long after all
Nows ==
  { <<2024, 2, 1, 0>>, <<2024, 3, 30, 0>>, <<2024, 3, 31, EndOfDay>>,
    <<2024, 9, 1, 0>> }

----------------------------------------------------------------------------
(* the state machine *)

VARIABLES operations, last, db

vars == <<operations, last, db>>

\* DatabaseManager._init_db: the tables operations and categories of a new
\* database file, and the counter SQLite keeps for AUTOINCREMENT
init_db ==
  [operations |-> <<>>, sqlite_sequence |-> 0, categories |-> {}]

Call(op, args, result) ==
  [op |-> op, args |-> args, raised |-> result.raised, value |-> result.value]

Init ==
  /\ operations = <<>>
  /\ db = init_db
  /\ last = Call("init", <<>>, Returned(<<>>))

\* AddOperation that also writes the new amount into the first operation of
\* the list, an assignment the dataclass does not refuse
AddOperationAdjusting(type, amount, cid, date) ==
  /\ Len(operations) < MaxOps
  /\ UNCHANGED db
  /\ IF post_init_ok(amount)
     THEN LET op == [id |-> Len(operations) + 1, amount |-> amount,
                     operation_type |-> type, category |-> CategoryOf(cid),
                     date |-> date, description |-> <<>>]
              adjusted == [i \in 1..Len(operations) |->
                             IF i = 1
                             THEN [operations[i] EXCEPT !.amount = amount]
                             ELSE operations[i]]
          IN /\ operations' = Append(adjusted, op)
             /\ last' = Call("FinancialOperation", <<type, amount, cid, date>>,
                             Returned(op))
     ELSE /\ operations' = operations
          /\ last' = Call("FinancialOperation", <<type, amount, cid, date>>,
                          Raised("ValueError"))

\* A caller constructs a FinancialOperation and appends it to the list the
\* analyzer holds.
AddOperation(type, amount, cid, date) ==
  /\ Len(operations) < MaxOps
  /\ UNCHANGED db
  /\ IF post_init_ok(amount)
     THEN LET op == [id |-> Len(operations) + 1, amount |-> amount,
                     operation_type |-> type, category |-> CategoryOf(cid),
                     date |-> date, description |-> <<>>]
          IN /\ operations' = Append(operations, op)
             /\ last' = Call("FinancialOperation", <<type, amount, cid, date>>,
                             Returned(op))
     ELSE /\ operations' = operations
          /\ last' = Call("FinancialOperation", <<type, amount, cid, date>>,
                          Raised("ValueError"))

GetBalanceByPeriod(start_date, end_date) ==
  /\ last' = Call("get_balance_by_period", <<start_date, end_date>>,
                  get_balance_by_period(operations, start_date, end_date))
  /\ UNCHANGED <<operations, db>>

GetCategoryStats(operation_type) ==
  /\ \E result \in get_category_stats(operations, operation_type) :
       last' = Call("get_category_stats", <<operation_type>>, result)
  /\ UNCHANGED <<operations, db>>

GetMonthlyTrends(months) ==
  /\ last' = Call("get_monthly_trends", <<months>>,
                  get_monthly_trends(operations, months))
  /\ UNCHANGED <<operations, db>>

\* get_top_expenses sorting the list the analyzer holds (list.sort) before
\* it picks the expenses
GetTopExpensesSortingInPlace(limit) ==
  /\ operations' = StableDesc(operations, 1..Len(operations))
  /\ UNCHANGED db
  /\ last' = Call("get_top_expenses", <<limit>>,
                  get_top_expenses(operations', limit))

GetTopExpenses(limit) ==
  /\ last' = Call("get_top_expenses", <<limit>>,
                  get_top_expenses(operations, limit))
  /\ UNCHANGED <<operations, db>>

PredictNextMonthExpense(now) ==
  /\ last' = Call("predict_next_month_expense", <<now>>,
                  predict_next_month_expense(operations, now))
  /\ UNCHANGED <<operations, db>>

Next ==
  \/ \E f \in Fixtures : AddOperation(f[1], f[2], f[3], f[4])
  \/ \E s \in QueryDates, e \in QueryDates : GetBalanceByPeriod(s, e)
  \/ \E t \in OperationType : GetCategoryStats(t)
  \/ \E m \in Windows : GetMonthlyTrends(m)
  \/ \E n \in Limits : GetTopExpenses(n)
  \/ \E now \in Nows : PredictNextMonthExpense(now)

Spec == Init /\ [][Next]_vars

\* amounts of ledgers with one expense in each of many categories
WideAmounts ==
  << <<45, 195, 225, 285, 315, 345, 413, 454, 495, 533, 555, 585, 593, 615,
       634, 705, 713, 855, 945, 1043, 1245, 1305, 14175>>,
     <<12, 28, 36, 68, 172, 196, 212, 284, 292, 308, 404, 452, 532, 668,
       724, 772, 828, 972, 1084, 1132, 1228, 1244, 15016>>,
     <<100, 200, 300, 400, 500, 600, 700, 800, 900, 1000, 1100, 1200, 1300,
       1400, 1500, 1600, 1700, 1800, 1900, 2000, 2100, 2200, 2300>> >>

\* the ledger of the first n amounts of a row of WideAmounts
WideLedger(amounts, n) ==
  [k \in 1..n |->
     [id |-> k, amount |-> amounts[k], operation_type |-> EXPENSE,
      category |-> CategoryOf(4 + k), date |-> <<2024, 1, 1, 0>>,
      description |-> <<>>]]

\* an analyzer constructed over a ledger of many categories
InitWide ==
  /\ \E t \in 1..Len(WideAmounts), n \in 1..Len(WideNames) :
       operations = WideLedger(WideAmounts[t], n)
  /\ db = init_db
  /\ last = Call("init", <<>>, Returned(<<>>))

NextWide == \E t \in OperationType : GetCategoryStats(t)

SpecWide == InitWide /\ [][NextWide]_vars

----------------------------------------------------------------------------
(* src/storage.py: a text is the sequence of its characters *)

\* OperationType.value (the Russian words, transliterated)
value == [t \in OperationType |->
            IF t = INCOME THEN "Dokhod" ELSE "Raskhod"]

RECURSIVE str(_)
\* str(number): the decimal digits of a whole number
str(n) == IF n < 10 THEN <<n>> ELSE str(n \div 10) \o <<n % 10>>

RECURSIVE float(_)
\* float(text): the number a sequence of decimal digits writes
float(digits) ==
  IF Len(digits) = 0 THEN 0
  ELSE 10 * float(SubSeq(digits, 1, Len(digits) - 1)) + digits[Len(digits)]

\* date.strftime('%Y-%m-%d %H:%M:%S'): the microsecond is not written
strftime(ts) ==
  <<ts[1], ts[2], ts[3], ts[4] \div 3600, (ts[4] % 3600) \div 60, ts[4] % 60>>

\* datetime.strptime(text, '%Y-%m-%d %H:%M:%S')
strptime(text) ==
  <<text[1], text[2], text[3], text[4] * 3600 + text[5] * 60 + text[6]>>

RECURSIVE universal_newlines(_)
\* open(filepath, 'r') without newline='': reading turns "\r\n" and a lone
\* "\r" into "\n", inside a quoted cell as anywhere else
universal_newlines(text) ==
  IF Len(text) = 0 THEN <<>>
  ELSE IF text[1] = "\r"
  THEN <<"\n">> \o universal_newlines(
         SubSeq(text, IF Len(text) > 1 /\ text[2] = "\n" THEN 3 ELSE 2, Len(text)))
  ELSE <<text[1]>> \o universal_newlines(SubSeq(text, 2, Len(text)))

RECURSIVE json_dumps(_)
\* json.dump of a string: a backslash, a quote and a control character are
\* written as escapes
json_dumps(text) ==
  IF Len(text) = 0 THEN <<>>
  ELSE (CASE text[1] = "\\" -> <<"\\", "\\">>
          [] text[1] = "\"" -> <<"\\", "\"">>
          [] text[1] = "\n" -> <<"\\", "n">>
          [] text[1] = "\r" -> <<"\\", "r">>
          [] OTHER -> <<text[1]>>)
       \o json_dumps(SubSeq(text, 2, Len(text)))

RECURSIVE json_loads(_)
\* json.load of a string: the escapes are read back
json_loads(text) ==
  IF Len(text) = 0 THEN <<>>
  ELSE IF text[1] = "\\" /\ Len(text) > 1
  THEN <<(CASE text[2] = "n" -> "\n"
            [] text[2] = "r" -> "\r"
            [] OTHER -> text[2])>>
       \o json_loads(SubSeq(text, 3, Len(text)))
  ELSE <<text[1]>> \o json_loads(SubSeq(text, 2, Len(text)))

\* DataStorage.export_to_csv: the header and one row per operation, every
\* cell as csv.DictWriter writes it (a cell with a comma, a quote or a line
\* break goes between quotes, its characters as they are)
export_to_csv(ops) ==
  [fieldnames |-> <<"id", "amount", "type", "category", "date", "description">>,
   rows |-> [i \in 1..Len(ops) |->
               [id          |-> str(ops[i].id),
                amount      |-> str(ops[i].amount),
                type        |-> value[ops[i].operation_type],
                category    |-> ops[i].category.name,
                date        |-> strftime(ops[i].date),
                description |-> ops[i].description]]]

\* OperationType(text) finds a member: otherwise ValueError, and the row is
\* skipped
row_ok(type) == \E t \in OperationType : value[t] = type

\* the dictionary both imports build from the cells of one operation
imported(amount, type, category, date, description) ==
  [amount      |-> amount,
   type        |-> CHOOSE t \in OperationType : value[t] = type,
   category    |-> [id |-> 0, name |-> category],
   date        |-> strptime(date),
   description |-> description]

\* DataStorage.import_from_csv: the file is opened for reading without
\* newline='', so the line breaks of a cell are translated
import_from_csv(file) ==
  LET rows == FilterIdx(file.rows,
                [i \in 1..Len(file.rows) |-> row_ok(file.rows[i].type)], 1)
  IN [i \in 1..Len(rows) |->
        imported(float(rows[i].amount), rows[i].type, rows[i].category,
                 rows[i].date, universal_newlines(rows[i].description))]

\* FinancialOperation.to_dict
to_dict(op) ==
  [id          |-> op.id,
   amount      |-> op.amount,
   type        |-> value[op.operation_type],
   category    |-> op.category.name,
   date        |-> strftime(op.date),
   description |-> op.description]

\* DataStorage.export_to_json: json.dump writes a number in digits and a
\* string with its escapes
export_to_json(ops) ==
  [total_operations |-> Len(ops),
   operations |-> [i \in 1..Len(ops) |->
                     [to_dict(ops[i]) EXCEPT
                        !.amount = str(@),
                        !.description = json_dumps(@)]]]

\* DataStorage.import_from_json: the file is read in the same text mode
import_from_json(file) ==
  LET data == [i \in 1..Len(file.operations) |->
                 [file.operations[i] EXCEPT
                    !.amount = float(@),
                    !.description = json_loads(universal_newlines(@))]]
      rows == FilterIdx(data, [i \in 1..Len(data) |-> row_ok(data[i].type)], 1)
  IN [i \in 1..Len(rows) |->
        imported(rows[i].amount, rows[i].type, rows[i].category,
                 rows[i].date, rows[i].description)]

\* the operations a ledger on its way to a file holds: (type, amount,
\* category id, date with its microsecond, description)
StoredOperations ==
  { <<EXPENSE,  1, 1, <<2024,  1,  1, 36000, 123456>>, <<>>>>,
    <<INCOME,   2, 3, <<2023, 12, 31, EndOfDay, 0>>, <<"a", "\n", "b">>>>,
    <<EXPENSE, 12, 4, <<2024,  3, 15, 3661, 0>>, <<"a", "\r", "b">>>>,
    <<INCOME, 120, 2, <<2024,  1,  1, 0, 0>>, <<"\\", "r", ",", "\"">>>> }

RECURSIVE Ledgers(_)
\* the ledgers of n stored operations
Ledgers(n) ==
  IF n = 0 THEN {<<>>}
  ELSE {Append(l, [id |-> n, amount |-> f[2], operation_type |-> f[1],
                   category |-> CategoryOf(f[3]), date |-> f[4],
                   description |-> f[5]]) :
          l \in Ledgers(n - 1), f \in StoredOperations}

InitStorage ==
  /\ operations \in UNION {Ledgers(n) : n \in 0..MaxOps}
  /\ db = init_db
  /\ last = Call("init", <<>>, Returned(<<>>))

\* the value of an export is the file it wrote
ExportToCsv ==
  /\ last' = Call("export_to_csv", <<>>, Returned(export_to_csv(operations)))
  /\ UNCHANGED <<operations, db>>

ImportFromCsv ==
  /\ last.op = "export_to_csv"
  /\ last' = Call("import_from_csv", <<>>, Returned(import_from_csv(last.value)))
  /\ UNCHANGED <<operations, db>>

ExportToJson ==
  /\ last' = Call("export_to_json", <<>>, Returned(export_to_json(operations)))
  /\ UNCHANGED <<operations, db>>

ImportFromJson ==
  /\ last.op = "export_to_json"
  /\ last' = Call("import_from_json", <<>>, Returned(import_from_json(last.value)))
  /\ UNCHANGED <<operations, db>>

NextStorage ==
  \/ ExportToCsv
  \/ ImportFromCsv
  \/ ExportToJson
  \/ ImportFromJson

SpecStorage == InitStorage /\ [][NextStorage]_vars

----------------------------------------------------------------------------
(* src/database.py over SQLite: a row of the table operations holds its date *)
(* as the text the sqlite3 module writes for a datetime                      *)

None == "None"

\* sqlite3's adapter of a datetime parameter, datetime.isoformat(" "): the
\* microsecond is written when it is not zero
adapt_datetime(ts) ==
  IF ts[5] = 0 THEN strftime(ts) ELSE strftime(ts) \o <<ts[5]>>

\* date.strftime("%Y-%m-%d")
strftime_date(d) == <<d[1], d[2], d[3]>>

RECURSIVE text_le(_, _)
\* a <= b between two texts of zero-padded numbers, as SQLite compares TEXT:
\* the first differing field decides, and a text is above its own prefix
text_le(a, b) ==
  IF Len(a) = 0 THEN TRUE
  ELSE IF Len(b) = 0 THEN FALSE
  ELSE IF a[1] # b[1] THEN a[1] < b[1]
  ELSE text_le(Tail(a), Tail(b))

\* DatabaseManager.add_operation: INSERT with the next AUTOINCREMENT id,
\* which is never an id the table has used before; returns cursor.lastrowid
add_operation(database, operation) ==
  LET id == database.sqlite_sequence + 1
      row == [id          |-> id,
              amount      |-> operation.amount,
              type        |-> value[operation.operation_type],
              category_id |-> operation.category.id,
              date        |-> adapt_datetime(operation.date),
              description |-> operation.description]
  IN [db |-> [database EXCEPT !.operations = Append(@, row),
                              !.sqlite_sequence = id],
      lastrowid |-> id]

\* DatabaseManager.delete_operation: DELETE ... WHERE id = ?; returns
\* cursor.rowcount > 0
delete_operation(database, operation_id) ==
  LET rows == database.operations
      keep == [i \in 1..Len(rows) |-> rows[i].id # operation_id]
  IN [db |-> [database EXCEPT !.operations = FilterIdx(rows, keep, 1)],
      deleted |-> \E i \in 1..Len(rows) : ~keep[i]]

\* ORDER BY o.date DESC: every order of the rows in which no date comes
\* before a later one; SQL leaves the order of equal dates open
order_by_date_desc(rows) ==
  LET n == Len(rows)
      orders == {f \in [1..n -> 1..n] :
                   /\ \A i \in 1..n, j \in 1..n : i # j => f[i] # f[j]
                   /\ \A i \in 1..n, j \in 1..n :
                        i < j => text_le(rows[f[j]].date, rows[f[i]].date)}
  IN {[i \in 1..n |-> rows[f[i]]] : f \in orders}

\* WHERE 1=1 AND o.date >= ? AND o.date <= ?, each part only for a date
\* that was given, the parameters as date.strftime("%Y-%m-%d")
where_dates(date, start_date, end_date) ==
  /\ start_date # None => text_le(strftime_date(start_date), date)
  /\ end_date # None => text_le(date, strftime_date(end_date))

\* datetime.strptime(row['date'], "%Y-%m-%d %H:%M:%S") raises ValueError on
\* a text that goes on after the seconds
row_date_ok(date) == Len(date) = 6

\* DatabaseManager.get_operations with the two date filters (category_id
\* and operation_type not given): the outcomes it can have
get_operations(database, start_date, end_date) ==
  LET rows == database.operations
      keep == [i \in 1..Len(rows) |->
                 /\ \E c \in database.categories : c.id = rows[i].category_id
                 /\ where_dates(rows[i].date, start_date, end_date)]
      Built(row) ==
        [id             |-> row.id,
         amount         |-> row.amount,
         operation_type |-> CHOOSE t \in OperationType : value[t] = row.type,
         category       |-> CHOOSE c \in database.categories :
                              c.id = row.category_id,
         date           |-> strptime(row.date),
         description    |-> row.description]
  IN {IF \E i \in 1..Len(fetched) : ~row_date_ok(fetched[i].date)
      THEN Raised("ValueError")
      ELSE Returned([i \in 1..Len(fetched) |-> Built(fetched[i])]) :
        fetched \in order_by_date_desc(FilterIdx(rows, keep, 1))}

\* DatabaseManager.get_balance
get_balance(database) ==
  LET rows == database.operations
      amounts == [i \in 1..Len(rows) |-> rows[i].amount]
      income == SumOver(amounts, {i \in 1..Len(rows) : rows[i].type = value[INCOME]})
      expense == SumOver(amounts, {i \in 1..Len(rows) : rows[i].type = value[EXPENSE]})
  IN income - expense

\* the operations the window adds: (type, amount, category id, date with
\* its microsecond); the date of the last was taken from the clock
DbFixtures ==
  { <<EXPENSE, 1, 1, <<2024,  1,  1, 0, 0>>>>,
    <<INCOME,  2, 3, <<2024,  1,  1, 36000, 0>>>>,
    <<EXPENSE, 2, 3, <<2023, 12, 31, EndOfDay, 123456>>>> }

DbDates == {None, <<2023, 12, 31>>, <<2024, 1, 1>>}

\* a new database file with the categories of the window added to it
InitDatabase ==
  /\ operations = <<>>
  /\ db = [init_db EXCEPT !.categories = {c \in Category : c.id \in {1, 3}}]
  /\ last = Call("init", <<>>, Returned(<<>>))

\* the window constructs an operation, stores it, gives it the id of its
\* row and appends it to its own list
DbAddOperation(type, amount, cid, date) ==
  /\ db.sqlite_sequence < MaxOps
  /\ LET operation == [id |-> 0, amount |-> amount, operation_type |-> type,
                       category |-> CategoryOf(cid), date |-> date,
                       description |-> <<>>]
         added == add_operation(db, operation)
     IN /\ db' = added.db
        /\ operations' = Append(operations,
                                [operation EXCEPT !.id = added.lastrowid])
        /\ last' = Call("add_operation", <<type, amount, cid, date>>,
                        Returned(added.lastrowid))

\* the window deletes the row of an id and, when a row went, drops the
\* operation of that id from its list
DbDeleteOperation(operation_id) ==
  LET done == delete_operation(db, operation_id)
      keep == [i \in 1..Len(operations) |-> operations[i].id # operation_id]
  IN /\ db' = done.db
     /\ operations' = IF done.deleted THEN FilterIdx(operations, keep, 1)
                      ELSE operations
     /\ last' = Call("delete_operation", <<operation_id>>, Returned(done.deleted))

DbGetOperations(start_date, end_date) ==
  /\ \E result \in get_operations(db, start_date, end_date) :
       last' = Call("get_operations", <<start_date, end_date>>, result)
  /\ UNCHANGED <<operations, db>>

DbGetBalance ==
  /\ last' = Call("get_balance", <<>>, Returned(get_balance(db)))
  /\ UNCHANGED <<operations, db>>

NextDatabase ==
  \/ \E f \in DbFixtures : DbAddOperation(f[1], f[2], f[3], f[4])
  \/ \E id \in 1..MaxOps : DbDeleteOperation(id)
  \/ \E s \in DbDates, e \in DbDates : DbGetOperations(s, e)
  \/ DbGetBalance

SpecDatabase == InitDatabase /\ [][NextDatabase]_vars

----------------------------------------------------------------------------
(* src/utils.py: an amount is kept in hundredths of a currency unit *)

RECURSIVE replace(_, _, _)
\* str.replace(old, new) for one character old and a text new
replace(text, old, new) ==
  IF Len(text) = 0 THEN <<>>
  ELSE (IF text[1] = old THEN new ELSE <<text[1]>>)
       \o replace(Tail(text), old, new)

\* \d over the characters of the model, with the value of each digit
digit ==
  [c \in {"0", "1", "2", "3", "4", "5", "6", "7", "8", "9"} |->
     CASE c = "0" -> 0 [] c = "1" -> 1 [] c = "2" -> 2 [] c = "3" -> 3
       [] c = "4" -> 4 [] c = "5" -> 5 [] c = "6" -> 6 [] c = "7" -> 7
       [] c = "8" -> 8 [] c = "9" -> 9]

\* re.match(AMOUNT_PATTERN, text) with AMOUNT_PATTERN = ^\d+(\.\d{1,2})?$
amount_pattern_match(text) ==
  LET dots == {i \in 1..Len(text) : text[i] = "."}
      digits == {i \in 1..Len(text) : text[i] \in DOMAIN digit}
  IN /\ Len(text) > 0
     /\ dots \cup digits = 1..Len(text)
     /\ \/ dots = {}
        \/ \E p \in 2..Len(text) :
             dots = {p} /\ Len(text) - p \in {1, 2}

RECURSIVE whole_number(_)
\* the number a text of digits writes
whole_number(text) ==
  IF Len(text) = 0 THEN 0
  ELSE 10 * whole_number(SubSeq(text, 1, Len(text) - 1)) + digit[text[Len(text)]]

\* float(text) of a text that matches AMOUNT_PATTERN, in hundredths
float_hundredths(text) ==
  LET dots == {i \in 1..Len(text) : text[i] = "."}
      p == IF dots = {} THEN Len(text) + 1 ELSE CHOOSE i \in dots : TRUE
      fraction == SubSeq(text, p + 1, Len(text))
  IN 100 * whole_number(SubSeq(text, 1, p - 1))
     + (IF Len(fraction) = 1 THEN 10 * whole_number(fraction)
        ELSE whole_number(fraction))

\* Validator.validate_amount: (valid, amount); round(amount, 2) changes
\* nothing in a number of at most two decimals
validate_amount(amount_str) ==
  LET cleaned == replace(replace(amount_str, " ", <<>>), ",", <<".">>)
  IN IF ~amount_pattern_match(cleaned) THEN <<FALSE, None>>
     ELSE IF float_hundredths(cleaned) <= 0 THEN <<FALSE, None>>
     ELSE <<TRUE, float_hundredths(cleaned)>>

\* the texts typed into the amount field: a sign, a whole part, a separator
\* and a fraction put together
AmountTexts ==
  {sign \o whole \o separator \o fraction :
     sign \in {<<>>, <<"-">>},
     whole \in {<<>>, <<"0">>, <<"1", "0", "0">>, <<"1", ",", "0", "0", "0">>,
                <<"1", " ", "0", "0", "0">>, <<"a", "b", "c">>},
     separator \in {<<>>, <<".">>, <<",">>},
     fraction \in {<<>>, <<"5">>, <<"5", "0">>, <<"5", "0", "5">>}}

\* a text stands in the amount field
InitValidator ==
  /\ operations = <<>>
  /\ db = init_db
  /\ \E text \in AmountTexts : last = Call("amount_var", <<text>>, Returned(<<>>))

ValidateAmount ==
  /\ last.op = "amount_var"
  /\ last' = Call("validate_amount", last.args,
                  Returned(validate_amount(last.args[1])))
  /\ UNCHANGED <<operations, db>>

NextValidator == ValidateAmount

SpecValidator == InitValidator /\ [][NextValidator]_vars

----------------------------------------------------------------------------
(* what the ledger holds, read off the operations themselves *)

OpsOf(type) ==
  {i \in 1..Len(operations) : operations[i].operation_type = type}

AmountOf == [i \in 1..Len(operations) |-> operations[i].amount]

OnDates(start_date, end_date) ==
  {i \in 1..Len(operations) :
     /\ DateLE(start_date, DatePart(operations[i].date))
     /\ DateLE(DatePart(operations[i].date), end_date)}

NamesOf(type) == {operations[i].category.name : i \in OpsOf(type)}

Named(type, name) == {i \in OpsOf(type) : operations[i].category.name = name}

\* the operations of a year and month
InMonth(month) ==
  {i \in 1..Len(operations) :
     /\ operations[i].date[1] = month \div 12
     /\ operations[i].date[2] = (month % 12) + 1}

Returns(op) == last.op = op /\ last.raised = "none"

ZeroBalance == [income |-> 0, expense |-> 0, balance |-> 0]

----------------------------------------------------------------------------
(* the claims *)

\* C1: for every ledger and every pair of dates, get_balance_by_period
\* returns income = the sum of the amounts of the INCOME operations whose
\* date part lies in [start, end] (both ends included, the time of day
\* ignored), expense = the same over the EXPENSE operations, and
\* balance = income - expense.
C1_BalanceForPeriod ==
  last.op = "get_balance_by_period" =>
    LET period == OnDates(last.args[1], last.args[2])
        income == SumOver(AmountOf, OpsOf(INCOME) \cap period)
        expense == SumOver(AmountOf, OpsOf(EXPENSE) \cap period)
    IN /\ last.raised = "none"
       /\ last.value = [income |-> income, expense |-> expense,
                        balance |-> income - expense]

\* C2: on a ledger that is not empty, get_balance_by_period over a range
\* that holds no operation, a range with start > end included, returns
\* income 0, expense 0, balance 0 and does not raise.
C2_EmptyRangeIsZero ==
  ( /\ last.op = "get_balance_by_period"
    /\ Len(operations) > 0
    /\ OnDates(last.args[1], last.args[2]) = {} )
  => (last.raised = "none" /\ last.value = ZeroBalance)

\* C2 witness: a ledger with operations queried over a range whose start
\* lies after its end.
C2_Witness ==
  /\ Returns("get_balance_by_period")
  /\ Len(operations) > 0
  /\ ~DateLE(last.args[1], last.args[2])
  /\ last.value = ZeroBalance

\* C3: over a ledger of zero operations, get_balance_by_period,
\* get_category_stats, get_monthly_trends and predict_next_month_expense
\* each return a zero or empty result (a zero balance, no rows, no rows, 0)
\* and none of them raises.
C3_EmptyLedgerIsZero ==
  Len(operations) = 0 =>
    /\ last.op = "get_balance_by_period"
         => (last.raised = "none" /\ last.value = ZeroBalance)
    /\ last.op = "get_category_stats"
         => (last.raised = "none" /\ last.value = <<>>)
    /\ last.op = "get_monthly_trends"
         => (last.raised = "none" /\ last.value = <<>>)
    /\ last.op = "predict_next_month_expense"
         => (last.raised = "none" /\ last.value.num = 0)

\* the rows a call of get_category_stats handed back
StatRows == IF Returns("get_category_stats") THEN last.value ELSE <<>>

\* C4: get_category_stats(type) has exactly one row per distinct category
\* name among the operations of that type; its Sum is the sum of their
\* amounts and its Count their number; operations of the other type add
\* nothing, and categories of one name and different ids share a row.
C4_OneRowPerName ==
  last.op = "get_category_stats" =>
    LET type == last.args[1] IN
    /\ Len(StatRows) = Cardinality(NamesOf(type))
    /\ \A n \in NamesOf(type) : \E k \in 1..Len(StatRows) :
         StatRows[k].Category = n
    /\ \A k \in 1..Len(StatRows) :
         /\ StatRows[k].Category \in NamesOf(type)
         /\ StatRows[k].Sum = SumOver(AmountOf, Named(type, StatRows[k].Category))
         /\ StatRows[k].Count = Cardinality(Named(type, StatRows[k].Category))

\* C4 witness: a row that merges two operations whose categories share a
\* name under different ids, in a ledger that also holds an operation of
\* the other type under that name.
C4_Witness ==
  /\ Returns("get_category_stats")
  /\ \E k \in 1..Len(last.value) :
       /\ last.value[k].Count = 2
       /\ \E i, j \in Named(last.args[1], last.value[k].Category) :
            operations[i].category.id # operations[j].category.id
       /\ \E i \in 1..Len(operations) :
            /\ operations[i].operation_type # last.args[1]
            /\ operations[i].category.name = last.value[k].Category

\* C5: the rows of get_category_stats are in descending order of Sum.
C5_SortedBySumDescending ==
  \A k \in 1..(Len(StatRows) - 1) : StatRows[k].Sum >= StatRows[k + 1].Sum

\* C5 witness: a row of a greater Sum stands before a row whose name
\* comes first in the order of the names.
C5_Witness ==
  /\ Returns("get_category_stats")
  /\ Len(last.value) >= 2
  /\ last.value[1].Sum > last.value[2].Sum
  /\ last.value[1].Category = "Rent"
  /\ last.value[2].Category = "Food"

\* first place in the ledger of an operation of the type under the name
FirstSeen(type, name) ==
  CHOOSE i \in Named(type, name) : \A j \in Named(type, name) : i <= j

\* C6: of two rows of get_category_stats with equal Sum, the one whose
\* category is met first in the ledger stands before the other.
C6_TiesInLedgerOrder ==
  \A k, l \in 1..Len(StatRows) :
    (k < l /\ StatRows[k].Sum = StatRows[l].Sum)
      => FirstSeen(last.args[1], StatRows[k].Category)
           < FirstSeen(last.args[1], StatRows[l].Category)

StatTotal == SumOver([k \in 1..Len(StatRows) |-> StatRows[k].Sum],
                     1..Len(StatRows))

\* C7: the Share of a row of get_category_stats is 100 * Sum / (the sum of
\* the Sums of all rows) rounded to two decimals: it lies within half a
\* hundredth of that quotient.
C7_ShareIsRoundedQuotient ==
  \A k \in 1..Len(StatRows) :
    LET exact == 10000 * StatRows[k].Sum
        share == StatRows[k].Share * StatTotal
    IN 2 * (share - exact) <= StatTotal /\ 2 * (exact - share) <= StatTotal

\* C7 witness: one share rounded down and one rounded up, 33.33 and 66.67.
C7_Witness ==
  /\ Returns("get_category_stats")
  /\ \E k, l \in 1..Len(last.value) :
       /\ last.value[k].Sum = 1 /\ last.value[k].Share = 3333
       /\ last.value[l].Sum = 2 /\ last.value[l].Share = 6667

ShareSum == SumOver([k \in 1..Len(StatRows) |-> StatRows[k].Share],
                    1..Len(StatRows))

\* C8 as stated: the shares of every non-empty result of get_category_stats
\* sum to a value within 0.1 of 100.
C8_SharesSumToHundred ==
  Len(StatRows) > 0 => (ShareSum >= 10000 - 10 /\ ShareSum <= 10000 + 10)

\* C8 as amended: the shares of a non-empty result of at most 21 rows sum
\* to a value within 0.1 of 100.
C8_SharesSumToHundredUpTo21 ==
  (Len(StatRows) > 0 /\ Len(StatRows) <= 21)
    => (ShareSum >= 10000 - 10 /\ ShareSum <= 10000 + 10)

\* C8 witness: 21 rows whose shares sum to 100.01.
C8_Witness ==
  /\ Returns("get_category_stats")
  /\ Len(last.value) = 21
  /\ ShareSum = 10000 + 1

\* C9: when a ledger that is not empty holds no operation of the type asked
\* for, get_category_stats returns no rows and does not raise.
C9_NoRowsForAbsentType ==
  ( /\ last.op = "get_category_stats"
    /\ Len(operations) > 0
    /\ OpsOf(last.args[1]) = {} )
  => (last.raised = "none" /\ last.value = <<>>)

\* C9 witness: the statistics of INCOME over a ledger of expenses only.
C9_Witness ==
  /\ Returns("get_category_stats")
  /\ last.args[1] = INCOME
  /\ Len(operations) > 0
  /\ OpsOf(INCOME) = {}
  /\ last.value = <<>>

\* the rows a call of get_monthly_trends handed back
TrendRows == IF Returns("get_monthly_trends") THEN last.value ELSE <<>>

\* C10: a row of get_monthly_trends has as income the sum of the amounts of
\* the INCOME operations of its year and month, as expense the same over the
\* EXPENSE operations, and as Balance income - expense; an operation on the
\* last day of a month is not counted in the month after.  A column is read
\* the way the code reads it, with get(column, 0).
C10_MonthlySums ==
  \A k \in 1..Len(TrendRows) :
    LET month == InMonth(TrendRows[k].month)
        income == SumOver(AmountOf, OpsOf(INCOME) \cap month)
        expense == SumOver(AmountOf, OpsOf(EXPENSE) \cap month)
    IN /\ frame_get(TrendRows[k].cells, INCOME) = income
       /\ frame_get(TrendRows[k].cells, EXPENSE) = expense
       /\ TrendRows[k].cells["Balance"] = income - expense

\* C10 witness: an income in the last second of December 2023 and an
\* expense at the start of January 2024, each in the row of its own month.
C10_Witness ==
  /\ Returns("get_monthly_trends")
  /\ \E i \in OpsOf(INCOME) : operations[i].date = <<2023, 12, 31, EndOfDay>>
  /\ \E i \in OpsOf(EXPENSE) : operations[i].date = <<2024, 1, 1, 0>>
  /\ \E k \in 1..(Len(last.value) - 1) :
       /\ last.value[k].month = 2023 * 12 + 11
       /\ last.value[k].cells[INCOME] > 0
       /\ last.value[k + 1].cells[EXPENSE] > 0
       /\ last.value[k + 1].cells["Balance"] < 0

\* the months in which the ledger holds an operation, as year * 12 + month - 1
ObservedMonths ==
  {operations[i].date[1] * 12 + operations[i].date[2] - 1 :
     i \in 1..Len(operations)}

FirstObserved == CHOOSE m \in ObservedMonths : \A k \in ObservedMonths : m <= k
LastObserved == CHOOSE m \in ObservedMonths : \A k \in ObservedMonths : k <= m

\* the number of calendar months from the first to the last observed month
ObservedSpan ==
  IF ObservedMonths = {} THEN 0 ELSE LastObserved - FirstObserved + 1

\* consecutive buckets are consecutive months, and a bucket of a month
\* without operations holds income 0, expense 0 and balance 0
ContiguousZeroFilled(rows) ==
  /\ \A k \in 1..(Len(rows) - 1) : rows[k + 1].month = rows[k].month + 1
  /\ \A k \in 1..Len(rows) :
       /\ FirstObserved <= rows[k].month
       /\ rows[k].month <= LastObserved
       /\ InMonth(rows[k].month) = {} =>
            /\ frame_get(rows[k].cells, INCOME) = 0
            /\ frame_get(rows[k].cells, EXPENSE) = 0
            /\ rows[k].cells["Balance"] = 0

\* C11 as stated: the series get_monthly_trends returns is contiguous and
\* ascending, every month from the first to the last observed month appears
\* in it exactly once, a month without operations as a bucket of zeros, and
\* no bucket lies outside that span.
C11_WholeSpanOnce ==
  Returns("get_monthly_trends") =>
    /\ ContiguousZeroFilled(last.value)
    /\ \A m \in FirstObserved..LastObserved :
         Cardinality({k \in 1..Len(last.value) : last.value[k].month = m}) = 1

\* C11 amended: the series get_monthly_trends returns is contiguous and
\* ascending, a non-empty series ends at the last observed month, every
\* month from the first returned bucket to the last observed month appears
\* exactly once (every month of the span when the window is at least the
\* span), a month without operations is a bucket of zeros, and no bucket
\* lies outside the span.
C11_ContiguousUpToLastMonth ==
  Returns("get_monthly_trends") =>
    /\ ContiguousZeroFilled(last.value)
    /\ Len(last.value) > 0 => last.value[Len(last.value)].month = LastObserved
    /\ last.args[1] >= ObservedSpan =>
         \A m \in FirstObserved..LastObserved :
           Cardinality({k \in 1..Len(last.value) : last.value[k].month = m}) = 1

\* C11 witness: operations in December 2023 and March 2024 only, the window
\* covers the span, and January and February come back as buckets of zeros.
C11_Witness ==
  /\ Returns("get_monthly_trends")
  /\ ObservedMonths = {2023 * 12 + 11, 2024 * 12 + 2}
  /\ Len(last.value) = 4
  /\ \A k \in {2, 3} :
       /\ last.value[k].month = 2023 * 12 + 11 + (k - 1)
       /\ last.value[k].cells["Balance"] = 0
       /\ \A t \in DOMAIN last.value[k].cells : last.value[k].cells[t] = 0

C13_NonPositiveWindowClamps ==
  (last.op = "get_monthly_trends" /\ last.args[1] <= 0) =>
    /\ last.raised = "none"
    /\ Len(last.value) <= ObservedSpan

\* C14: on a ledger without an EXPENSE operation, a ledger of INCOME
\* operations only included, predict_next_month_expense returns 0.
C14_NoExpenseIsZero ==
  (last.op = "predict_next_month_expense" /\ OpsOf(EXPENSE) = {}) =>
    /\ last.raised = "none"
    /\ last.value.num = 0

\* the EXPENSE operations dated in the 90 days that end at now
InTrailingWindow(now) ==
  {i \in OpsOf(EXPENSE) :
     LET d == days_from_civil(operations[i].date)
         n == days_from_civil(now)
         s == operations[i].date[4]
     IN /\ d > n - 90 \/ (d = n - 90 /\ s > now[4])
        /\ d < n \/ (d = n /\ s <= now[4])}

\* C15: with an EXPENSE operation in the trailing 90 days,
\* predict_next_month_expense returns the sum of the amounts of the expenses
\* of the window divided by the number of distinct months that hold one;
\* an expense outside the window adds nothing.
C15_MonthlyMeanOfWindow ==
  LET window == InTrailingWindow(last.args[1])
      months == {operations[i].date[1] * 12 + operations[i].date[2] : i \in window}
  IN (Returns("predict_next_month_expense") /\ window # {}) =>
       last.value.num * Cardinality(months)
         = SumOver(AmountOf, window) * last.value.den

\* C16: with EXPENSE operations of which none lies in the trailing 90 days,
\* predict_next_month_expense returns the sum of the amounts of all expenses
\* divided by their number.
C16_FlatMeanOutsideWindow ==
  (/\ Returns("predict_next_month_expense")
   /\ OpsOf(EXPENSE) # {}
   /\ InTrailingWindow(last.args[1]) = {}) =>
    last.value.num * Cardinality(OpsOf(EXPENSE))
      = SumOver(AmountOf, OpsOf(EXPENSE)) * last.value.den

\* C17: the signed amount of every operation is its amount when the type is
\* INCOME and minus its amount when it is EXPENSE; an operation holds no
\* field of that name, and the column of the frame is computed from the
\* amount and the type each time the frame is built.
C17_SignedAmountLaw ==
  \A i \in 1..Len(operations) :
    LET signed == IF operations[i].operation_type = INCOME
                  THEN operations[i].amount ELSE 0 - operations[i].amount
    IN /\ signed_amount(operations[i]) = signed
       /\ to_dataframe(operations).rows[i].signed_amount = signed
       /\ "signed_amount" \notin DOMAIN operations[i]

\* C17 witness: a ledger with an income of 2 and an expense of 2, signed 2
\* and -2.
C17_Witness ==
  /\ \E i \in OpsOf(INCOME) :
       operations[i].amount = 2 /\ signed_amount(operations[i]) = 2
  /\ \E i \in OpsOf(EXPENSE) :
       operations[i].amount = 2 /\ signed_amount(operations[i]) = 0 - 2

\* C18: constructing a FinancialOperation with an amount of zero or less
\* raises ValueError and hands back no operation, nor does the ledger ever
\* hold such an operation; with an amount above zero the construction
\* succeeds and hands back the operation with that amount.
C18_AmountMustBePositive ==
  /\ \A i \in 1..Len(operations) : operations[i].amount > 0
  /\ last.op = "FinancialOperation" =>
       IF last.args[2] <= 0
       THEN last.raised = "ValueError" /\ last.value = <<>>
       ELSE /\ last.raised = "none"
            /\ last.value.amount = last.args[2]
            /\ operations[Len(operations)] = last.value

\* C18 witness: an amount of exactly zero was refused after an operation
\* with a positive amount had been constructed.
C18_Witness ==
  /\ last.op = "FinancialOperation"
  /\ last.args[2] = 0
  /\ last.raised = "ValueError"
  /\ Len(operations) > 0

\* the five queries of the analyzer
QueryOps ==
  { "get_balance_by_period", "get_category_stats", "get_monthly_trends",
    "get_top_expenses", "predict_next_month_expense" }

\* what FinancialAnalyzer(ops), constructed anew, can answer to a query
FreshAnswers(op, args, ops) ==
  CASE op = "get_balance_by_period" ->
         {get_balance_by_period(ops, args[1], args[2])}
    [] op = "get_category_stats" -> get_category_stats(ops, args[1])
    [] op = "get_monthly_trends" -> {get_monthly_trends(ops, args[1])}
    [] op = "get_top_expenses" -> {get_top_expenses(ops, args[1])}
    [] op = "predict_next_month_expense" ->
         {predict_next_month_expense(ops, args[1])}

\* C19: a step of any of the five queries, after any steps before it, leaves
\* the ledger as it was (its length, its order, every field of every
\* operation), and its answer is one that a newly constructed analyzer over
\* that ledger gives to the same query (the forecast at the same moment).
C19_QueriesAreReadOnly ==
  [][last'.op \in QueryOps =>
       /\ operations' = operations
       /\ [raised |-> last'.raised, value |-> last'.value]
            \in FreshAnswers(last'.op, last'.args, operations')]_vars

\* C19 witness: get_top_expenses handed back an expense of 2 ahead of an
\* expense of 1 while the ledger still holds the expense of 1 first.
C19_Witness ==
  /\ Returns("get_top_expenses")
  /\ Len(last.value) = 2
  /\ last.value[1].amount = 2
  /\ last.value[2].amount = 1
  /\ \E i \in OpsOf(EXPENSE), j \in OpsOf(EXPENSE) :
       i < j /\ operations[i] = last.value[2] /\ operations[j] = last.value[1]

\* C20: importing the file an export to CSV or to JSON wrote returns one
\* record per exported operation, in the order of the ledger, each with the
\* amount, the type, the category name, the date to the second and the
\* description of its operation.
C20_ExportImportRoundTrip ==
  (last.op \in {"import_from_csv", "import_from_json"}) =>
    /\ Len(last.value) = Len(operations)
    /\ \A i \in 1..Len(operations) :
         /\ last.value[i].amount = operations[i].amount
         /\ last.value[i].type = operations[i].operation_type
         /\ last.value[i].category.name = operations[i].category.name
         /\ last.value[i].date = SubSeq(operations[i].date, 1, 4)
         /\ last.value[i].description = operations[i].description

\* the day of a timestamp lies in the period; None leaves an end open
DayInPeriod(ts, start_date, end_date) ==
  /\ start_date # None => DateLE(start_date, DatePart(ts))
  /\ end_date # None => DateLE(DatePart(ts), end_date)

\* an operation get_operations handed back is the operation of the list
SameOperation(got, op) ==
  /\ got.id = op.id
  /\ got.amount = op.amount
  /\ got.operation_type = op.operation_type
  /\ got.category.id = op.category.id
  /\ got.category.name = op.category.name
  /\ got.date = SubSeq(op.date, 1, 4)

\* C21: after any additions and deletions, get_operations() without filters
\* succeeds and returns exactly one operation for each operation added and
\* not deleted, with its amount, type, category and timestamp, also when
\* the timestamp came from the clock.
C21_GetOperationsReturnsStored ==
  (last.op = "get_operations" /\ last.args = <<None, None>>) =>
    /\ last.raised = "none"
    /\ Len(last.value) = Len(operations)
    /\ \A i \in 1..Len(operations) :
         \E k \in 1..Len(last.value) : SameOperation(last.value[k], operations[i])

\* C28: get_operations(start_date, end_date) returns exactly the stored
\* operations whose day lies in [start_date, end_date], both ends included,
\* whatever their time of day on end_date.
C28_DateFilterInclusive ==
  Returns("get_operations") =>
    {last.value[k].id : k \in 1..Len(last.value)}
      = {operations[i].id : i \in {j \in 1..Len(operations) :
           DayInPeriod(operations[j].date, last.args[1], last.args[2])}}

\* a period that covers every operation of the list
CoveringPeriod ==
  LET days == {DatePart(operations[i].date) : i \in 1..Len(operations)}
                \cup {<<2024, 1, 1>>}
  IN [start |-> CHOOSE d \in days : \A e \in days : DateLE(d, e),
      end   |-> CHOOSE d \in days : \A e \in days : DateLE(e, d)]

\* C29: after any additions and deletions get_balance() is the sum of the
\* stored INCOME amounts minus the sum of the stored EXPENSE amounts, 0 for
\* an empty table, and the balance get_balance_by_period reports for the
\* same operations over a period that covers them; deleting an id that is
\* not stored returns False and leaves that balance as it was.
C29_BalanceOfStoredOperations ==
  LET balance == SumOver(AmountOf, OpsOf(INCOME)) - SumOver(AmountOf, OpsOf(EXPENSE))
      engine == get_balance_by_period(operations, CoveringPeriod.start,
                                      CoveringPeriod.end)
  IN /\ last.op = "get_balance" =>
          /\ last.value = balance
          /\ Len(operations) = 0 => last.value = 0
          /\ engine.raised = "none"
          /\ engine.value.balance = last.value
     /\ (last.op = "delete_operation" /\ last.value = FALSE) =>
          get_balance(db) = balance

\* the amounts C22 names, with the answer it gives for each
AmountCases ==
  { << <<"1", "0", "0">>,                          <<TRUE, 10000>> >>,
    << <<"1", "0", "0", ".", "5", "0">>,           <<TRUE, 10050>> >>,
    << <<"1", "0", "0", ",", "5", "0">>,           <<TRUE, 10050>> >>,
    << <<"1", ",", "0", "0", "0", ".", "5", "0">>, <<TRUE, 100050>> >>,
    << <<"-", "1", "0", "0">>,                     <<FALSE, None>> >>,
    << <<"a", "b", "c">>,                          <<FALSE, None>> >>,
    << <<"1", "0", "0", ".">>,                     <<FALSE, None>> >>,
    << <<>>,                                       <<FALSE, None>> >> }

\* C22: validate_amount accepts a positive amount of at most two decimals,
\* the comma as decimal separator ("100,50" is 100.5) or as thousands
\* separator ("1,000.50" is 1000.5), and answers (False, None) to a negative
\* amount, to a text that is no number, to a trailing dot and to the empty
\* text.
C22_ValidateAmountCases ==
  last.op = "validate_amount" =>
    \A case \in AmountCases :
      last.args[1] = case[1] => last.value = case[2]

\* C23: every bucket of get_monthly_trends carries an income total, an
\* expense total and a balance, also on a ledger of operations of one type
\* only: the total of the absent type is in the bucket, as 0.
C23_AllThreeValues ==
  \A k \in 1..Len(TrendRows) :
    /\ {INCOME, EXPENSE, "Balance"} \subseteq DOMAIN TrendRows[k].cells
    /\ \A t \in OperationType :
         OpsOf(t) = {} => TrendRows[k].cells[t] = 0

\* C24: the expenses predict_next_month_expense takes for recent are the
\* EXPENSE operations dated in the 90 days that end at the call: neither an
\* expense more than 90 days old nor an expense dated after the call is
\* among them.
C24_RecentIsTrailingWindow ==
  last.op = "predict_next_month_expense" =>
    {i \in OpsOf(EXPENSE) : is_recent(operations[i].date, last.args[1])}
      = InTrailingWindow(last.args[1])

C26_MonotoneInWindow ==
  Returns("get_monthly_trends") =>
    /\ \A w \in Windows :
         last.args[1] <= w =>
           Len(last.value) <= Len(get_monthly_trends(operations, w).value)
    /\ last.args[1] < 0 =>
         last.value = get_monthly_trends(operations, 0).value

\* the days of the earliest and of the latest operation
EarliestDay ==
  CHOOSE d \in {DatePart(operations[i].date) : i \in 1..Len(operations)} :
    \A i \in 1..Len(operations) : DateLE(d, DatePart(operations[i].date))
LatestDay ==
  CHOOSE d \in {DatePart(operations[i].date) : i \in 1..Len(operations)} :
    \A i \in 1..Len(operations) : DateLE(DatePart(operations[i].date), d)

\* C27: on a ledger that holds operations, with a window of at least the
\* months the data spans, the income, the expense and the balance summed
\* over the buckets of get_monthly_trends are the income, the expense and
\* the balance of get_balance_by_period from the day of the earliest to the
\* day of the latest operation.  A column is read with get(column, 0).
C27_TrendsSumToPeriodBalance ==
  (/\ Returns("get_monthly_trends")
   /\ Len(operations) > 0
   /\ last.args[1] >= ObservedSpan) =>
    LET period == get_balance_by_period(operations, EarliestDay, LatestDay)
        rows == 1..Len(last.value)
        Column(c) == [k \in rows |-> frame_get(last.value[k].cells, c)]
    IN /\ period.raised = "none"
       /\ SumOver(Column(INCOME), rows) = period.value.income
       /\ SumOver(Column(EXPENSE), rows) = period.value.expense
       /\ SumOver(Column("Balance"), rows) = period.value.balance

\* C27 witness: three operations from December 2023 to March 2024, four
\* buckets, and a balance that is not zero.
C27_Witness ==
  /\ Returns("get_monthly_trends")
  /\ last.args[1] = 6
  /\ Len(operations) = 3
  /\ Len(last.value) = 4
  /\ OpsOf(INCOME) # {}
  /\ OpsOf(EXPENSE) # {}
  /\ SumOver(AmountOf, OpsOf(INCOME)) # SumOver(AmountOf, OpsOf(EXPENSE))

\* C30: get_top_expenses(limit) with limit >= 0 returns min(limit, number
\* of EXPENSE operations) operations, all EXPENSE operations of the ledger,
\* in descending order of amount, none left out larger than one returned,
\* and operations of equal amount in their ledger order.
C30_TopExpenses ==
  (Returns("get_top_expenses") /\ last.args[1] >= 0) =>
    LET n == Cardinality(OpsOf(EXPENSE))
        got == last.value
        ids == {got[k].id : k \in 1..Len(got)}
    IN /\ Len(got) = IF last.args[1] < n THEN last.args[1] ELSE n
       /\ Cardinality(ids) = Len(got)
       /\ \A k \in 1..Len(got) :
            /\ got[k].operation_type = EXPENSE
            /\ got[k].id \in OpsOf(EXPENSE)
            /\ operations[got[k].id] = got[k]
       /\ \A k \in 1..(Len(got) - 1) :
            \/ got[k].amount > got[k + 1].amount
            \/ got[k].amount = got[k + 1].amount /\ got[k].id < got[k + 1].id
       /\ \A i \in OpsOf(EXPENSE) \ ids, k \in 1..Len(got) :
            \/ operations[i].amount < got[k].amount
            \/ operations[i].amount = got[k].amount /\ got[k].id < i

\* C30 witness: three expenses of which two are of amount 1, a limit of 2,
\* and the earlier of the two comes back after the expense of 2.
C30_Witness ==
  /\ Returns("get_top_expenses")
  /\ last.args[1] = 2
  /\ Cardinality(OpsOf(EXPENSE)) = 3
  /\ Len(last.value) = 2
  /\ last.value[1].amount = 2
  /\ last.value[2].amount = 1
  /\ \E i \in OpsOf(EXPENSE) :
       i > last.value[2].id /\ operations[i].amount = 1

====
